---- MODULE Spec2Model ----
(***************************************************************************)
(* A model of the amqp-migration relay (runner.js): run() and its retry,   *)
(* closeConnections(), startGracefulShutdown(), the subscribe callback     *)
(* (formatMessage, storeMessage, publishesMessage, ack / nack) and         *)
(* handleReturnedMessage, together with the two brokers, the cache store   *)
(* and the file system they talk to.                                       *)
(*                                                                         *)
(* Every `await` of the source is a suspension point: an action runs the   *)
(* code from one await to the next.  What the brokers answer is the        *)
(* environment's choice.                                                   *)
(***************************************************************************)
EXTENDS Integers, Sequences, FiniteSets, TLC

VARIABLES
    env,          \* the environment variables read at load (runner.js 12-24)
    runPc,        \* where run() stands
    attempts,     \* how many times run() was invoked
    conn,         \* every connection opened so far: state, attempt, role
    connMap,      \* connMap: 'source' / 'dest' -> connection (0: no entry)
    sourceConn,   \* run()'s local sourceConn of the current attempt (0: unset)
    destConn,     \* run()'s local destConn of the current attempt (0: unset)
    destChannel,  \* the shared destination channel: "none", "open", "closed"
    err,          \* the error run()'s catch block holds
    failedAt,     \* per attempt, the setup step that failed ("none": none)
    thrown,       \* what run() rejected to its caller with ("none": nothing)
    closer,       \* closeConnections() invocations: by run's catch, by shutdown
    closeLog,     \* the conn.close() calls made, in order, and how they settled
    exited,       \* process.exit(0) was called
    now,          \* Date.now()
    srcQ,         \* the source queue: messages ready for delivery
    sent,         \* how many messages were put on the source queue
    backlog,      \* how many of them were there when run() was called
    msgs,         \* the deliveries handed to the subscribe callback, in order,
                  \* each with where its callback stands and what it did
    rpcQ,         \* callbacks awaiting an RPC reply on destChannel, in order
    pubQ,         \* callbacks awaiting a publish confirm, in order
    pubLog,       \* the basicPublish calls made on destChannel, in order
    destBroker,   \* what the destination broker routed to a queue, in order
    redisLogger,  \* the RedisLogger instance: started, and the store behind it
    fileLogger,   \* the files written by the FileLogger
    events,       \* the events emitted on `events`
    calls         \* the push / get calls a user of the RedisLogger made on
                  \* it, in order, each with init()'s answer and its result

vars == << env, runPc, attempts, conn, connMap, sourceConn, destConn,
           destChannel, err, failedAt, thrown, closer, closeLog, exited, now,
           srcQ, sent, backlog, msgs, rpcQ, pubQ, pubLog, destBroker,
           redisLogger, fileLogger, events, calls >>

runVars == << runPc, attempts, conn, connMap, sourceConn, destConn,
              destChannel, err, failedAt, thrown, closer, closeLog >>

relayVars == << srcQ, backlog, msgs, rpcQ, pubQ, pubLog, destBroker,
                redisLogger, fileLogger, events, calls >>

(***************************************************************************)
(* Bounds of the model.                                                    *)
(***************************************************************************)
MaxAttempts == 2    \* run() invocations (first call and retries)
MaxMessages == 2    \* messages put on the source queue
MaxDeliveries == 2  \* deliveries handed to the subscribe callback
MaxClock == 1       \* Date.now() ticks
MaxCalls == 3       \* push / get calls made on the RedisLogger by its user

(***************************************************************************)
(* Messages.  A body is a sequence of bytes: "a" stands for a byte that is *)
(* valid UTF-8 on its own, "xFF" for one that is not.                      *)
(***************************************************************************)
\* the messages put on the source queue: a text message that carries a
\* message id and a timestamp (a Date in the client's properties) and
\* routes on the destination, a binary message without either that routes,
\* and a text message without either whose routing key ('fail-queue') has
\* no queue on the destination.  "undefined" stands for a property that is
\* not there.
Messages ==
    { [exchange |-> "", routingKey |-> "test-source",
       properties |-> [messageId |-> "m1", timestamp |-> "Date(0)"],
       body |-> << "a" >>],
      [exchange |-> "", routingKey |-> "test-source",
       properties |-> [messageId |-> "undefined", timestamp |-> "undefined"],
       body |-> << "xFF" >>],
      [exchange |-> "", routingKey |-> "fail-queue",
       properties |-> [messageId |-> "undefined", timestamp |-> "undefined"],
       body |-> << "a" >>] }

\* the message ids a publisher may give: none, a plain id, and ids that
\* start with 'returned-'
KeyIds == {"undefined", "m1", "returned-m1", "returned-0"}

\* messages with these ids, with and without a queue on the destination
KeyMessages ==
    { [exchange |-> "", routingKey |-> rk,
       properties |-> [messageId |-> id, timestamp |-> "undefined"],
       body |-> << "a" >>] : rk \in {"test-source", "fail-queue"},
                             id \in KeyIds }

\* the source queues of up to n of these messages, no two of them with
\* the same message id
Backlogs(n) ==
    { q \in UNION { [1..k -> KeyMessages] : k \in 1..n } :
        \A i, j \in DOMAIN q :
            (i # j /\ q[i].properties.messageId # "undefined") =>
                q[i].properties.messageId # q[j].properties.messageId }

\* the queues of the destination broker; the default exchange routes a
\* routing key to the queue of that name
DestQueues == {"test-source", "test-dest"}

Bound(exchange, routingKey) == exchange = "" /\ routingKey \in DestQueues

(***************************************************************************)
(* msg.bodyToString(): the bytes decoded as UTF-8, a byte that is not      *)
(* valid UTF-8 becoming U+FFFD (whose own encoding is EF BF BD); and the   *)
(* encoding basicPublish applies to a string body.                         *)
(***************************************************************************)
RECURSIVE bodyToString(_)
bodyToString(bytes) ==
    IF bytes = << >> THEN << >>
    ELSE IF Len(bytes) >= 3 /\ SubSeq(bytes, 1, 3) = << "xEF", "xBF", "xBD" >>
         THEN << "U+FFFD" >> \o bodyToString(SubSeq(bytes, 4, Len(bytes)))
    ELSE IF Head(bytes) \in {"xFF", "xEF", "xBF", "xBD"}
         THEN << "U+FFFD" >> \o bodyToString(Tail(bytes))
    ELSE << Head(bytes) >> \o bodyToString(Tail(bytes))

RECURSIVE encodeBody(_)
encodeBody(str) ==
    IF str = << >> THEN << >>
    ELSE (IF Head(str) = "U+FFFD" THEN << "xEF", "xBF", "xBD" >>
          ELSE << Head(str) >>) \o encodeBody(Tail(str))

formatMessage(msg) ==
    [channel |-> 1, exchange |-> msg.exchange, routingKey |-> msg.routingKey,
     properties |-> msg.properties, body |-> bodyToString(msg.body)]

\* Date.now() returns t: the clock never runs backwards
Date_now(t) == t \in now..MaxClock /\ now' = t

\* msg.properties.messageId ?? generateId(), generateId() reading the clock
\* only when the property is undefined
idOf(msg, t) ==
    IF msg.properties.messageId # "undefined"
    THEN msg.properties.messageId ELSE ToString(t)

readsClock(msg, t) ==
    IF msg.properties.messageId # "undefined" THEN t = now /\ now' = now
    ELSE Date_now(t)

(***************************************************************************)
(* closeConnections(): the loop over connMap, one conn.close() awaited at  *)
(* a time.  conn.close() marks the connection closed as it is called.      *)
(***************************************************************************)
Keys == << "source", "dest" >>

\* variant: close() is called whether the connection is closed or not
needsClose_ignoresClosed(key) == connMap[key] # 0

\* !conn.closed && conn.close
needsClose(key) == connMap[key] # 0 /\ conn[connMap[key]].state = "open"

\* the first key at or after position i whose connection is to be closed
RECURSIVE nextKey(_)
nextKey(i) ==
    IF i > Len(Keys) THEN "done"
    ELSE IF needsClose(Keys[i]) THEN Keys[i] ELSE nextKey(i + 1)

keyIndex(key) == CHOOSE i \in 1..Len(Keys) : Keys[i] = key

\* the loop runs from position i to its next await (or to its end), log
\* being the close() calls made so far
\* (startGracefulShutdown calls process.exit(0) when the loop has ended)
closeLoop(who, i, log) ==
    LET k == nextKey(i) IN
    /\ closer' = [closer EXCEPT ![who] = k]
    /\ exited' = (who = "shutdown" /\ k = "done")
    /\ IF k = "done"
       THEN conn' = conn /\ closeLog' = log
       ELSE /\ conn' = [conn EXCEPT ![connMap[k]].state = "closed"]
            /\ closeLog' = Append(log, [conn |-> connMap[k], by |-> who,
                                        result |-> "pending"])

closeConnections(who) == closeLoop(who, 1, closeLog)

\* the close() call that invocation who is awaiting has settled
settle(who, result) ==
    [j \in DOMAIN closeLog |->
        IF closeLog[j].by = who /\ closeLog[j].result = "pending"
        THEN [closeLog[j] EXCEPT !.result = result] ELSE closeLog[j]]

\* variant: a close() that rejects ends the loop
closeConnections_resume_aborts(who) ==
    /\ closer[who] \in {"source", "dest"}
    /\ \E result \in {"resolved", "rejected"} :
           closeLoop(who, IF result = "rejected" THEN Len(Keys) + 1
                          ELSE keyIndex(closer[who]) + 1,
                     settle(who, result))
    /\ UNCHANGED << env, runPc, attempts, connMap, sourceConn, destConn,
                    destChannel, err, failedAt, thrown, now, sent >>
    /\ UNCHANGED relayVars

\* the awaited conn.close() settled: resolved, or rejected, which the catch
\* inside the loop logs; the loop goes on to the next entry
closeConnections_resume(who) ==
    /\ closer[who] \in {"source", "dest"}
    /\ \E result \in {"resolved", "rejected"} :
           closeLoop(who, keyIndex(closer[who]) + 1, settle(who, result))
    /\ UNCHANGED << env, runPc, attempts, connMap, sourceConn, destConn,
                    destChannel, err, failedAt, thrown, now, sent >>
    /\ UNCHANGED relayVars

(***************************************************************************)
(* run(): the connection setup, the catch block and the retry.             *)
(***************************************************************************)
SetupSteps ==
    {"srcConnect", "srcChannel", "srcQueue", "dstConnect", "dstChannel",
     "subscribe"}

isOpen(c) == c # 0 /\ conn[c].state = "open"

run_start ==
    /\ runPc = "idle"
    /\ attempts' = attempts + 1
    /\ failedAt' = Append(failedAt, "none")
    /\ runPc' = "srcConnect"
    /\ sourceConn' = 0 /\ destConn' = 0 /\ destChannel' = "none"
    /\ backlog' = Len(srcQ)
    /\ UNCHANGED << env, conn, connMap, err, thrown, closer, closeLog, exited,
                    now, sent, srcQ, msgs, rpcQ, pubQ, pubLog, destBroker,
                    redisLogger, fileLogger, events, calls >>

connectSource ==
    /\ runPc = "srcConnect"
    /\ conn' = Append(conn, [state |-> "open", attempt |-> attempts,
                             role |-> "source"])
    /\ sourceConn' = Len(conn) + 1
    /\ runPc' = "srcChannel"
    /\ UNCHANGED << env, attempts, connMap, destConn, destChannel, err,
                    failedAt, thrown, closer, closeLog, exited, now, sent >>
    /\ UNCHANGED relayVars

sourceChannel ==
    /\ runPc = "srcChannel" /\ isOpen(sourceConn)
    /\ runPc' = "srcQueue"
    /\ UNCHANGED << env, attempts, conn, connMap, sourceConn, destConn,
                    destChannel, err, failedAt, thrown, closer, closeLog,
                    exited, now, sent >>
    /\ UNCHANGED relayVars

sourceQueue ==
    /\ runPc = "srcQueue" /\ isOpen(sourceConn)
    /\ connMap' = [connMap EXCEPT !["source"] = sourceConn]
    /\ runPc' = "dstConnect"
    /\ UNCHANGED << env, attempts, conn, sourceConn, destConn, destChannel,
                    err, failedAt, thrown, closer, closeLog, exited, now,
                    sent >>
    /\ UNCHANGED relayVars

connectDest ==
    /\ runPc = "dstConnect"
    /\ conn' = Append(conn, [state |-> "open", attempt |-> attempts,
                             role |-> "dest"])
    /\ destConn' = Len(conn) + 1
    /\ runPc' = "dstChannel"
    /\ UNCHANGED << env, attempts, connMap, sourceConn, destChannel, err,
                    failedAt, thrown, closer, closeLog, exited, now, sent >>
    /\ UNCHANGED relayVars

\* variant: the destination connection is not recorded in connMap
openDestChannel_unregistered ==
    /\ runPc = "dstChannel" /\ isOpen(destConn)
    /\ destChannel' = "open"
    /\ runPc' = "subscribe"
    /\ UNCHANGED << env, attempts, conn, connMap, sourceConn, destConn, err,
                    failedAt, thrown, closer, closeLog, exited, now, sent >>
    /\ UNCHANGED relayVars

openDestChannel ==
    /\ runPc = "dstChannel" /\ isOpen(destConn)
    /\ destChannel' = "open"
    /\ connMap' = [connMap EXCEPT !["dest"] = destConn]
    /\ runPc' = "subscribe"
    /\ UNCHANGED << env, attempts, conn, sourceConn, destConn, err, failedAt,
                    thrown, closer, closeLog, exited, now, sent >>
    /\ UNCHANGED relayVars

subscribe ==
    /\ runPc = "subscribe" /\ isOpen(sourceConn)
    /\ runPc' = "running"
    /\ UNCHANGED << env, attempts, conn, connMap, sourceConn, destConn,
                    destChannel, err, failedAt, thrown, closer, closeLog,
                    exited, now, sent >>
    /\ UNCHANGED relayVars

\* variant: the catch block does not call closeConnections()
run_catch_noClose ==
    /\ runPc \in SetupSteps
    /\ err' = runPc
    /\ failedAt' = [failedAt EXCEPT ![attempts] = runPc]
    /\ runPc' = "closing"
    /\ closer' = [closer EXCEPT !["run"] = "done"]
    /\ UNCHANGED << env, attempts, conn, connMap, sourceConn, destConn,
                    destChannel, thrown, closeLog, exited, now, sent >>
    /\ UNCHANGED relayVars

\* an awaited setup step rejects: the catch block logs the error and calls
\* closeConnections()
run_catch ==
    /\ runPc \in SetupSteps
    /\ err' = runPc
    /\ failedAt' = [failedAt EXCEPT ![attempts] = runPc]
    /\ runPc' = "closing"
    /\ closeConnections("run")
    /\ UNCHANGED << env, attempts, connMap, sourceConn, destConn, destChannel,
                    thrown, now, sent >>
    /\ UNCHANGED relayVars

\* variant: the catch block rethrows whatever RETRY_ON_FAIL says
run_afterClose_throws ==
    /\ runPc = "closing" /\ closer["run"] = "done"
    /\ closer' = [closer EXCEPT !["run"] = "idle"]
    /\ runPc' = "rejected" /\ thrown' = err
    /\ UNCHANGED << env, attempts, conn, connMap, sourceConn, destConn,
                    destChannel, err, failedAt, closeLog, exited, now, sent >>
    /\ UNCHANGED relayVars

\* closeConnections() returned: setTimeout(run, 2000), or throw err
run_afterClose ==
    /\ runPc = "closing" /\ closer["run"] = "done"
    /\ closer' = [closer EXCEPT !["run"] = "idle"]
    /\ IF env.RETRY_ON_FAIL
       THEN runPc' = "retryWait" /\ UNCHANGED thrown
       ELSE runPc' = "rejected" /\ thrown' = err
    /\ UNCHANGED << env, attempts, conn, connMap, sourceConn, destConn,
                    destChannel, err, failedAt, closeLog, exited, now, sent >>
    /\ UNCHANGED relayVars

\* variant: a timer is also pending, and fires, once run() has subscribed
run_retry_whileRunning ==
    /\ runPc \in {"retryWait", "running"} /\ attempts < MaxAttempts
    /\ attempts' = attempts + 1
    /\ failedAt' = Append(failedAt, "none")
    /\ runPc' = "srcConnect"
    /\ sourceConn' = 0 /\ destConn' = 0 /\ destChannel' = "none"
    /\ UNCHANGED << env, conn, connMap, err, thrown, closer, closeLog, exited,
                    now, sent >>
    /\ UNCHANGED relayVars

\* the 2-second timer fires and invokes run() again
run_retry ==
    /\ runPc = "retryWait" /\ attempts < MaxAttempts
    /\ attempts' = attempts + 1
    /\ failedAt' = Append(failedAt, "none")
    /\ runPc' = "srcConnect"
    /\ sourceConn' = 0 /\ destConn' = 0 /\ destChannel' = "none"
    /\ UNCHANGED << env, conn, connMap, err, thrown, closer, closeLog, exited,
                    now, sent >>
    /\ UNCHANGED relayVars

(***************************************************************************)
(* startGracefulShutdown() on SIGINT / SIGTERM.                            *)
(***************************************************************************)
startGracefulShutdown ==
    /\ closer["shutdown"] = "idle"
    /\ closeConnections("shutdown")
    /\ UNCHANGED << env, runPc, attempts, connMap, sourceConn, destConn,
                    destChannel, err, failedAt, thrown, now, sent >>
    /\ UNCHANGED relayVars

(***************************************************************************)
(* The environment: a connection is lost, a message is put on the source   *)
(* queue.                                                                  *)
(***************************************************************************)
connectionLost ==
    \E c \in {sourceConn, destConn} \ {0} :
        /\ conn[c].state = "open"
        /\ conn' = [conn EXCEPT ![c].state = "closed"]
        /\ UNCHANGED << env, runPc, attempts, connMap, sourceConn, destConn,
                        destChannel, err, failedAt, thrown, closer, closeLog,
                        exited, now, sent >>
        /\ UNCHANGED relayVars

sourcePublish ==
    \E m \in Messages :
        /\ runPc \in {"idle", "running"}
        /\ sent < MaxMessages
        /\ sent' = sent + 1
        /\ srcQ' = Append(srcQ, m)
        /\ UNCHANGED << env, exited, now, backlog, msgs, rpcQ, pubQ, pubLog,
                        destBroker, redisLogger, fileLogger, events >>
        /\ UNCHANGED << runVars, calls >>

(***************************************************************************)
(* The subscribe callback of run(), one instance per delivery.             *)
(***************************************************************************)
chOpen == destChannel = "open" /\ isOpen(destConn)

put(store, key, value) ==
    [k \in DOMAIN store \cup {key} |-> IF k = key THEN value ELSE store[k]]

\* JSON.stringify(message): a property that is undefined is left out, a
\* Date is written as its ISO string; JSON.parse gives back what is written
toJSON(value) ==
    IF value = "Date(0)" THEN "1970-01-01T00:00:00.000Z" ELSE value

JSON_stringify(message) ==
    << "json",
       [message EXCEPT !.properties =
            [k \in {j \in DOMAIN @ : @[j] # "undefined"} |-> toJSON(@[k])]] >>

JSON_parse(text) == text[2]

\* variant: the log file is named by the id alone
logFile_noPrefix(id) == "/logs/events/" \o id \o ".txt"

\* FileLogger.logFile(id), logsPath being FILE_LOGS_PATH
logFile(id) == "/logs/events/msg-" \o id \o ".txt"

\* FileLogger.get(id) on the files `files`: the parsed content of the log
\* file of id; undefined when the logger is disabled or the read fails
FileLogger_get(files, id) ==
    IF env.ENABLE_FILE_LOGGER /\ logFile(id) \in DOMAIN files
    THEN JSON_parse(files[logFile(id)]) ELSE "undefined"

\* variant: init() does not look at whether the logger is enabled
init_ignoresEnabled == ~redisLogger.started

\* RedisLogger.init(): true on the call that starts the logger, false when
\* the logger is disabled, undefined (falsy) on every later call
init == env.REDIS_URL /\ ~redisLogger.started

\* the ids and the values a user of the logger pushes and gets
LoggerIds == {"test", "m1"}

LoggerValues == {formatMessage(m) : m \in Messages}

\* how a call of the logger ended: it returned undefined or null, it
\* threw, or it returned a value
settled(kind) == [kind |-> kind, value |-> << >>]

value(v) == [kind |-> "value", value |-> << v >>]

\* RedisLogger.push(id, message) called by a user of the logger: init(),
\* then redis.set, which resolves or rejects; a rejection rejects push
RedisLogger_push ==
    \E id \in LoggerIds, message \in LoggerValues, ok \in BOOLEAN :
        LET success == init IN
        /\ Len(calls) < MaxCalls
        /\ redisLogger' =
               [started |-> redisLogger.started \/ env.REDIS_URL,
                store |-> IF success /\ ok
                          THEN put(redisLogger.store, id,
                                   JSON_stringify(message))
                          ELSE redisLogger.store]
        /\ calls' = Append(calls,
               [op |-> "push", id |-> id, message |-> << message >>,
                success |-> success,
                result |-> IF success /\ ~ok THEN settled("throws")
                           ELSE settled("undefined")])
        /\ UNCHANGED << env, exited, now, sent, srcQ, backlog, msgs, rpcQ,
                        pubQ, pubLog, destBroker, fileLogger, events >>
        /\ UNCHANGED runVars

\* variant: get reads the store whatever init() answered
RedisLogger_get_ignoresInit(success, ok, id) ==
    IF ~ok THEN settled("undefined")
    ELSE IF id \in DOMAIN redisLogger.store
         THEN value(JSON_parse(redisLogger.store[id])) ELSE settled("null")

\* what RedisLogger.get(id) returns: undefined when init() does not answer
\* true or when redis.get rejects, else the parsed record (null when there
\* is none)
RedisLogger_get(success, ok, id) ==
    IF ~success \/ ~ok THEN settled("undefined")
    ELSE IF id \in DOMAIN redisLogger.store
         THEN value(JSON_parse(redisLogger.store[id])) ELSE settled("null")

\* RedisLogger.get(id) called by a user of the logger
RedisLogger_getCall ==
    \E id \in LoggerIds, ok \in BOOLEAN :
        LET success == init IN
        /\ Len(calls) < MaxCalls
        /\ redisLogger' =
               [redisLogger EXCEPT !.started = @ \/ env.REDIS_URL]
        /\ calls' = Append(calls,
               [op |-> "get", id |-> id, message |-> << >>,
                success |-> success,
                result |-> RedisLogger_get(success, ok, id)])
        /\ UNCHANGED << env, exited, now, sent, srcQ, backlog, msgs, rpcQ,
                        pubQ, pubLog, destBroker, fileLogger, events >>
        /\ UNCHANGED runVars

\* variant: the file logger writes whether it is enabled or not
afterRedis_ignoresEnabled == "fileWait"

\* where storeMessage first suspends: on redis.set, on writeFile, or not at all
afterRedis == IF env.ENABLE_FILE_LOGGER THEN "fileWait" ELSE "stored"

\* variant: without a cache-store push to await, storeMessage returns
storeMessage_skipsFile == IF init THEN "redisWait" ELSE "stored"

storeMessage == IF init THEN "redisWait" ELSE afterRedis

\* what the module binds at its top level, apart from its functions
ModuleScope == {"logger", "redisLogger", "fileLogger", "connMap", "events"}

\* what the catch block of the subscribe callback can read: `id` is a
\* const of the try block, and no `id` is bound outside it
CatchScope == ModuleScope \cup {"msg", "data", "err"}

\* what handleReturnedMessage can read
ReturnScope == ModuleScope \cup {"msg", "data", "id", "logMessage"}

\* const {channel, exchange, routingKey, properties} = data
metadata(data) ==
    [channel |-> data.channel, exchange |-> data.exchange,
     routingKey |-> data.routingKey, properties |-> data.properties]

\* publishesMessage called: channel.confirmSelect() is awaited
enterPublish(d, at) ==
    rpcQ' = IF at = "stored" THEN Append(rpcQ, d) ELSE rpcQ

pcOf(at) == IF at = "stored" THEN "confirm" ELSE at

\* a delivery reaches the callback: formatMessage, then storeMessage up to
\* its first await
deliver ==
    /\ runPc = "running" /\ isOpen(sourceConn)
    /\ srcQ # << >> /\ Len(msgs) < MaxDeliveries
    /\ \E t \in 0..MaxClock :
       LET msg == Head(srcQ)
           d == Len(msgs) + 1
           at == storeMessage
       IN /\ readsClock(msg, t)
          /\ msgs' = Append(msgs,
                 [msg |-> msg, data |-> formatMessage(msg), id |-> idOf(msg, t),
                  pc |-> pcOf(at), threw |-> "none",
                  returned |-> FALSE, ackArgs |-> << >>, nackArgs |-> << >>,
                  ret |-> "none", retId |-> "",
                  redis |-> "none", file |-> "none",
                  retRedis |-> "none", retFile |-> "none",
                  log |-> << >>, retLog |-> << >>])
          /\ redisLogger' = [redisLogger EXCEPT !.started = @ \/ env.REDIS_URL]
          /\ enterPublish(d, at)
    /\ srcQ' = Tail(srcQ)
    /\ UNCHANGED << env, exited, sent, backlog, pubQ, pubLog, destBroker,
                    fileLogger, events >>
    /\ UNCHANGED << runVars, calls >>

\* variant: the catch block rejects the delivery without requeueing it
nack_noRequeue(d, step, m) ==
    [m EXCEPT ![d].pc = "nack", ![d].threw = step,
              ![d].nackArgs = << FALSE, FALSE >>]

\* the catch block of the callback: msg.nack(true, false)
nack(d, step, m) == [m EXCEPT ![d].pc = "nack", ![d].threw = step,
                              ![d].nackArgs = << TRUE, FALSE >>]

\* variant: a redis.set that fails rejects storeMessage
redisSet_escapes ==
    \E d \in 1..Len(msgs), ok \in BOOLEAN :
        /\ msgs[d].pc = "redisWait"
        /\ redisLogger' =
               IF ok THEN [redisLogger EXCEPT !.store =
                               put(@, msgs[d].id, JSON_stringify(msgs[d].data))]
               ELSE redisLogger
        /\ IF ok
           THEN /\ msgs' = [msgs EXCEPT ![d].pc = pcOf(afterRedis),
                                        ![d].redis = "ok"]
                /\ enterPublish(d, afterRedis)
           ELSE /\ msgs' = nack(d, "redisWait",
                                [msgs EXCEPT ![d].redis = "failed"])
                /\ rpcQ' = rpcQ
        /\ UNCHANGED << env, exited, now, sent, backlog, srcQ, pubQ, pubLog,
                        destBroker, fileLogger, events >>
        /\ UNCHANGED << runVars, calls >>

\* redis.set settled: the record is stored, or the error is logged
redisSet ==
    \E d \in 1..Len(msgs), ok \in BOOLEAN :
        /\ msgs[d].pc = "redisWait"
        /\ redisLogger' =
               IF ok THEN [redisLogger EXCEPT !.store =
                               put(@, msgs[d].id, JSON_stringify(msgs[d].data))]
               ELSE redisLogger
        /\ msgs' = [msgs EXCEPT ![d].pc = pcOf(afterRedis),
                                ![d].redis = IF ok THEN "ok" ELSE "failed"]
        /\ enterPublish(d, afterRedis)
        /\ UNCHANGED << env, exited, now, sent, backlog, srcQ, pubQ, pubLog,
                        destBroker, fileLogger, events >>
        /\ UNCHANGED << runVars, calls >>

\* writeFile settled: the file is written, or the error is logged
writeFile ==
    \E d \in 1..Len(msgs), ok \in BOOLEAN :
        /\ msgs[d].pc = "fileWait"
        /\ fileLogger' =
               IF ok THEN put(fileLogger, logFile(msgs[d].id),
                              JSON_stringify(msgs[d].data))
               ELSE fileLogger
        /\ msgs' = [msgs EXCEPT ![d].pc = "confirm",
                                ![d].file = IF ok THEN "ok" ELSE "failed"]
        /\ enterPublish(d, "stored")
        /\ UNCHANGED << env, exited, now, sent, backlog, srcQ, pubQ, pubLog,
                        destBroker, redisLogger, events >>
        /\ UNCHANGED << runVars, calls >>

\* channel.basicPublish(exchange, routingKey, body, properties, mandatory)
basicPublish(d, exchange, routingKey, body, properties, mandatory) ==
    /\ pubLog' = Append(pubLog,
           [d |-> d, exchange |-> exchange, routingKey |-> routingKey,
            body |-> encodeBody(body), properties |-> properties,
            mandatory |-> mandatory])
    /\ pubQ' = Append(pubQ, d)

\* msg.ack(false), called once publishesMessage has returned
ack(d, m) == [m EXCEPT ![d].pc = "ack", ![d].ackArgs = << FALSE >>]

\* variant: basicPublish is not awaited, the delivery is acknowledged as
\* soon as the publish is written to the channel
confirmSelect_noAwait ==
    /\ rpcQ # << >> /\ chOpen
    /\ LET d == Head(rpcQ) IN
        /\ msgs[d].pc = "confirm"
        /\ IF env.AMQP_DESTINATION_QUEUE # ""
           THEN /\ msgs' = [msgs EXCEPT ![d].pc = "queue"]
                /\ rpcQ' = Append(Tail(rpcQ), d)
                /\ UNCHANGED << pubQ, pubLog >>
           ELSE /\ msgs' = ack(d, msgs)
                /\ rpcQ' = Tail(rpcQ)
                /\ basicPublish(d, msgs[d].data.exchange,
                                msgs[d].data.routingKey, msgs[d].data.body,
                                msgs[d].data.properties, TRUE)
    /\ UNCHANGED << env, exited, now, sent, backlog, srcQ, destBroker,
                    redisLogger, fileLogger, events >>
    /\ UNCHANGED << runVars, calls >>

\* confirmSelect resolved: channel.queue(AMQP_DESTINATION_QUEUE) is awaited,
\* or the message is published to its exchange and routingKey, mandatory
confirmSelect ==
    /\ rpcQ # << >> /\ chOpen
    /\ LET d == Head(rpcQ) IN
        /\ msgs[d].pc = "confirm"
        /\ IF env.AMQP_DESTINATION_QUEUE # ""
           THEN /\ msgs' = [msgs EXCEPT ![d].pc = "queue"]
                /\ rpcQ' = Append(Tail(rpcQ), d)
                /\ UNCHANGED << pubQ, pubLog >>
           ELSE /\ msgs' = [msgs EXCEPT ![d].pc = "publish"]
                /\ rpcQ' = Tail(rpcQ)
                /\ basicPublish(d, msgs[d].data.exchange,
                                msgs[d].data.routingKey, msgs[d].data.body,
                                msgs[d].data.properties, TRUE)
    /\ UNCHANGED << env, exited, now, sent, backlog, srcQ, destBroker,
                    redisLogger, fileLogger, events >>
    /\ UNCHANGED << runVars, calls >>

\* channel.queue() resolved: queue.publish(body, properties)
queuePublish ==
    /\ rpcQ # << >> /\ chOpen
    /\ LET d == Head(rpcQ) IN
        /\ msgs[d].pc = "queue"
        /\ msgs' = [msgs EXCEPT ![d].pc = "publish"]
        /\ rpcQ' = Tail(rpcQ)
        /\ basicPublish(d, "", env.AMQP_DESTINATION_QUEUE, msgs[d].data.body,
                        msgs[d].data.properties, FALSE)
    /\ UNCHANGED << env, exited, now, sent, backlog, srcQ, destBroker,
                    redisLogger, fileLogger, events >>
    /\ UNCHANGED << runVars, calls >>

\* the call the callback made for delivery d
published(d) == CHOOSE p \in {pubLog[i] : i \in 1..Len(pubLog)} : p.d = d

\* publishesMessage returns: the 'published' event; then msg.ack(false)
publishesMessage_return(d) ==
    /\ events' = events \cup
           {[type |-> "published", d |-> d, id |-> msgs[d].id,
             data |-> msgs[d].data]}
    /\ pubQ' = Tail(pubQ)

\* the broker routed the message to a queue and confirmed the publish
publishConfirmed ==
    /\ pubQ # << >> /\ chOpen
    /\ LET d == Head(pubQ)
           p == published(d)
       IN /\ Bound(p.exchange, p.routingKey)
          /\ destBroker' = Append(destBroker,
                 [d |-> d, queue |-> p.routingKey, properties |-> p.properties,
                  body |-> p.body])
          /\ publishesMessage_return(d)
          /\ msgs' = ack(d, msgs)
    /\ UNCHANGED << env, exited, now, sent, backlog, srcQ, rpcQ, pubLog,
                    redisLogger, fileLogger >>
    /\ UNCHANGED << runVars, calls >>


\* variant: the return handler rejects the delivery on the source
handleReturnedMessage_nacks(d, t, m) ==
    [m EXCEPT ![d].returned = TRUE, ![d].retId = idOf(published(d), t),
              ![d].ret = "emit", ![d].nackArgs = << FALSE, FALSE >>]

\* handleReturnedMessage up to its first await: formatMessage, the id, then
\* storeMessage(`returned-${id}`, data)
handleReturnedMessage(d, t, m) ==
    LET at == storeMessage
    IN [m EXCEPT ![d].returned = TRUE, ![d].retId = idOf(published(d), t),
                 ![d].ret = IF at = "stored" THEN "emit" ELSE at]

\* variant: the return of a mandatory publish makes basicPublish reject
publishReturned_rejects ==
    /\ pubQ # << >> /\ chOpen
    /\ \E t \in 0..MaxClock :
       LET d == Head(pubQ)
           p == published(d)
       IN /\ p.mandatory /\ ~Bound(p.exchange, p.routingKey)
          /\ readsClock(p, t)
          /\ redisLogger' = [redisLogger EXCEPT !.started = @ \/ env.REDIS_URL]
          /\ pubQ' = Tail(pubQ)
          /\ msgs' = nack(d, "publish", handleReturnedMessage(d, t, msgs))
    /\ UNCHANGED << env, exited, sent, backlog, srcQ, rpcQ, pubLog,
                    destBroker, fileLogger, events >>
    /\ UNCHANGED << runVars, calls >>

\* the broker could not route a mandatory publish: basic.return, which
\* invokes destChannel.onReturn, and then the confirm of the publish
publishReturned ==
    /\ pubQ # << >> /\ chOpen
    /\ \E t \in 0..MaxClock :
       LET d == Head(pubQ)
           p == published(d)
       IN /\ p.mandatory /\ ~Bound(p.exchange, p.routingKey)
          /\ readsClock(p, t)
          /\ redisLogger' = [redisLogger EXCEPT !.started = @ \/ env.REDIS_URL]
          /\ publishesMessage_return(d)
          /\ msgs' = ack(d, handleReturnedMessage(d, t, msgs))
    /\ UNCHANGED << env, exited, sent, backlog, srcQ, rpcQ, pubLog,
                    destBroker, fileLogger >>
    /\ UNCHANGED << runVars, calls >>

returnedKey(d) == "returned-" \o msgs[d].retId

returnedData(d) == formatMessage(published(d))

returned_redisSet ==
    \E d \in 1..Len(msgs), ok \in BOOLEAN :
        /\ msgs[d].ret = "redisWait"
        /\ redisLogger' =
               IF ok THEN [redisLogger EXCEPT !.store =
                               put(@, returnedKey(d),
                                   JSON_stringify(returnedData(d)))]
               ELSE redisLogger
        /\ msgs' = [msgs EXCEPT ![d].ret =
                        IF afterRedis = "stored" THEN "emit" ELSE afterRedis,
                                ![d].retRedis = IF ok THEN "ok" ELSE "failed"]
        /\ UNCHANGED << env, exited, now, sent, backlog, srcQ, rpcQ, pubQ,
                        pubLog, destBroker, fileLogger, events >>
        /\ UNCHANGED << runVars, calls >>

returned_writeFile ==
    \E d \in 1..Len(msgs), ok \in BOOLEAN :
        /\ msgs[d].ret = "fileWait"
        /\ fileLogger' =
               IF ok THEN put(fileLogger, logFile(returnedKey(d)),
                              JSON_stringify(returnedData(d)))
               ELSE fileLogger
        /\ msgs' = [msgs EXCEPT ![d].ret = "emit",
                                ![d].retFile = IF ok THEN "ok" ELSE "failed"]
        /\ UNCHANGED << env, exited, now, sent, backlog, srcQ, rpcQ, pubQ,
                        pubLog, destBroker, redisLogger, events >>
        /\ UNCHANGED << runVars, calls >>

\* the end of handleReturnedMessage: with PRINT_RETURNED_BODY the warning
\* goes to `log`, a ReferenceError when the name is not bound, which
\* rejects the handler's promise; without, logger.warn gets the envelope
\* without its body
returned_warn(d) ==
    IF env.PRINT_RETURNED_BODY
    THEN IF "log" \in ReturnScope
         THEN [msgs EXCEPT ![d].ret = "done",
                           ![d].retLog =
                               << [level |-> "warn", id |-> msgs[d].retId,
                                   fields |-> returnedData(d)] >>]
         ELSE [msgs EXCEPT ![d].ret = "failed"]
    ELSE [msgs EXCEPT ![d].ret = "done",
                      ![d].retLog =
                          << [level |-> "warn", id |-> msgs[d].retId,
                              fields |-> metadata(returnedData(d))] >>]

\* storeMessage returned: the 'returned' event, then the warning
returned_emit ==
    \E d \in 1..Len(msgs) :
        /\ msgs[d].ret = "emit"
        /\ events' = events \cup
               {[type |-> "returned", d |-> d, id |-> msgs[d].retId,
                 data |-> returnedData(d)]}
        /\ msgs' = returned_warn(d)
        /\ UNCHANGED << env, exited, now, sent, backlog, srcQ, rpcQ, pubQ,
                        pubLog, destBroker, redisLogger, fileLogger >>
        /\ UNCHANGED << runVars, calls >>

without(q, d) == SelectSeq(q, LAMBDA x : x # d)

\* an awaited call of publishesMessage rejects: the channel or its
\* connection is closed, the broker raises a channel exception (which closes
\* the channel), or the broker nacks the publish
publishesMessage_throw ==
    \E d \in 1..Len(msgs), channelException \in BOOLEAN :
        /\ \/ rpcQ # << >> /\ d = Head(rpcQ)
           \/ pubQ # << >> /\ d = Head(pubQ)
        /\ \/ ~chOpen /\ ~channelException
           \/ chOpen /\ msgs[d].pc = "queue" /\ channelException
           \/ chOpen /\ msgs[d].pc = "publish"
        /\ destChannel' = IF channelException THEN "closed" ELSE destChannel
        /\ msgs' = nack(d, msgs[d].pc, msgs)
        /\ rpcQ' = without(rpcQ, d)
        /\ pubQ' = without(pubQ, d)
        /\ UNCHANGED << env, runPc, attempts, conn, connMap, sourceConn,
                        destConn, err, failedAt, thrown, closer, closeLog,
                        exited, now, sent, backlog, srcQ, pubLog, destBroker,
                        redisLogger, fileLogger, events, calls >>

\* msg.ack(false) settled: resolved, the callback logs and returns; rejected
\* (the source channel is gone), the catch block calls msg.nack(true, false)
ackSettled ==
    \E d \in 1..Len(msgs) :
        /\ msgs[d].pc = "ack"
        /\ msgs' = IF isOpen(sourceConn)
                   THEN [msgs EXCEPT ![d].pc = "done"]
                   ELSE nack(d, "ack", msgs)
        /\ UNCHANGED << env, exited, now, sent, backlog, srcQ, rpcQ, pubQ,
                        pubLog, destBroker, redisLogger, fileLogger, events >>
        /\ UNCHANGED << runVars, calls >>

\* the catch block after its await: the error message is built from `id`,
\* a ReferenceError when the name is not bound, which rejects the
\* callback's promise; else logger.error gets the envelope without its body
catch_log(d) ==
    IF "id" \in CatchScope
    THEN [msgs EXCEPT ![d].pc = "caught",
                      ![d].log = << [level |-> "error", id |-> msgs[d].id,
                                     fields |-> metadata(msgs[d].data)] >>]
    ELSE [msgs EXCEPT ![d].pc = "failed"]

\* msg.nack settled: resolved, the source broker requeues the message when
\* asked to and the catch block goes on; rejected (the source channel is
\* gone), the callback's promise rejects
nackSettled ==
    \E d \in 1..Len(msgs) :
        /\ msgs[d].pc = "nack"
        /\ srcQ' = IF isOpen(sourceConn) /\ msgs[d].nackArgs[1]
                   THEN << msgs[d].msg >> \o srcQ ELSE srcQ
        /\ msgs' = IF isOpen(sourceConn) THEN catch_log(d)
                   ELSE [msgs EXCEPT ![d].pc = "failed"]
        /\ UNCHANGED << env, exited, now, sent, backlog, rpcQ, pubQ, pubLog,
                        destBroker, redisLogger, fileLogger, events >>
        /\ UNCHANGED << runVars, calls >>

(***************************************************************************)
(* The earlier relay (unnamed/part_003): the destination connection is     *)
(* registered as soon as it is open, and the callback asks the destination *)
(* connection for the channel numbered like the source channel, publishes  *)
(* on it and closes it.  connection.channel(id) answers with the channel   *)
(* of that number when the connection holds one.                           *)
(***************************************************************************)
\* amqpDestination.connect() resolved; connMap.set('dest', destConn)
perDelivery_connectDest ==
    /\ runPc = "dstConnect"
    /\ conn' = Append(conn, [state |-> "open", attempt |-> attempts,
                             role |-> "dest"])
    /\ destConn' = Len(conn) + 1
    /\ connMap' = [connMap EXCEPT !["dest"] = Len(conn) + 1]
    /\ runPc' = "subscribe"
    /\ UNCHANGED << env, attempts, sourceConn, destChannel, err, failedAt,
                    thrown, closer, closeLog, exited, now, sent >>
    /\ UNCHANGED relayVars

\* nanoid(10): a fresh id at every call
nanoid(d) == "nanoid-" \o ToString(d)

\* a delivery reaches the callback: formatMessage, storeMessage (which has
\* nothing to write, archival being off), then destConn.channel(data.channel)
perDelivery_deliver ==
    /\ runPc = "running" /\ isOpen(sourceConn)
    /\ srcQ # << >> /\ Len(msgs) < MaxDeliveries
    /\ storeMessage = "stored"
    /\ LET msg == Head(srcQ)
           d == Len(msgs) + 1
       IN msgs' = Append(msgs,
              [msg |-> msg, data |-> formatMessage(msg),
               id |-> IF msg.properties.messageId # "undefined"
                      THEN msg.properties.messageId ELSE nanoid(d),
               pc |-> "channel", threw |-> "none",
               returned |-> FALSE, ackArgs |-> << >>, nackArgs |-> << >>,
               ret |-> "none", retId |-> "",
               redis |-> "none", file |-> "none",
               retRedis |-> "none", retFile |-> "none",
               log |-> << >>, retLog |-> << >>])
    /\ srcQ' = Tail(srcQ)
    /\ UNCHANGED << env, exited, now, sent, backlog, rpcQ, pubQ, pubLog,
                    destBroker, redisLogger, fileLogger, events, calls >>
    /\ UNCHANGED runVars

\* destConn.channel(data.channel) resolved: with the channel of that number
\* when it is open; when it has been closed, with that closed channel or
\* with a new one (opened once the requests that failed with the old one
\* have been rejected); then publishesMessage is called
perDelivery_channel ==
    \E d \in 1..Len(msgs), fresh \in BOOLEAN :
        /\ msgs[d].pc = "channel" /\ isOpen(destConn)
        /\ IF fresh
           THEN /\ destChannel # "open"
                /\ rpcQ = << >> /\ pubQ = << >>
                /\ destChannel' = "open"
           ELSE /\ destChannel # "none"
                /\ destChannel' = destChannel
        /\ msgs' = [msgs EXCEPT ![d].pc = "confirm"]
        /\ rpcQ' = Append(rpcQ, d)
        /\ UNCHANGED << env, runPc, attempts, conn, connMap, sourceConn,
                        destConn, err, failedAt, thrown, closer, closeLog,
                        exited, now, sent, backlog, srcQ, pubQ, pubLog,
                        destBroker, redisLogger, fileLogger, events, calls >>

\* await destChannel.close(), the last statement of the callback: the
\* channel is closed; closing a channel that is closed already rejects
perDelivery_close(d, end, m) ==
    /\ destChannel' = "closed"
    /\ msgs' = [m EXCEPT ![d].pc = IF chOpen THEN end ELSE "failed"]

\* msg.ack(false) settled: resolved, the callback closes its channel;
\* rejected, the catch block calls msg.nack(true, false)
perDelivery_ackSettled ==
    \E d \in 1..Len(msgs) :
        /\ msgs[d].pc = "ack"
        /\ IF isOpen(sourceConn)
           THEN perDelivery_close(d, "done", msgs)
           ELSE msgs' = nack(d, "ack", msgs) /\ destChannel' = destChannel
        /\ UNCHANGED << env, runPc, attempts, conn, connMap, sourceConn,
                        destConn, err, failedAt, thrown, closer, closeLog,
                        exited, now, sent, backlog, srcQ, rpcQ, pubQ, pubLog,
                        destBroker, redisLogger, fileLogger, events, calls >>

\* msg.nack settled: resolved, the catch block logs the failure (`id` is
\* declared before the try block here) and the callback closes its channel
perDelivery_nackSettled ==
    \E d \in 1..Len(msgs) :
        /\ msgs[d].pc = "nack"
        /\ srcQ' = IF isOpen(sourceConn) /\ msgs[d].nackArgs[1]
                   THEN << msgs[d].msg >> \o srcQ ELSE srcQ
        /\ IF isOpen(sourceConn)
           THEN perDelivery_close(d, "caught",
                    [msgs EXCEPT ![d].log =
                         << [level |-> "error", id |-> msgs[d].id,
                             fields |-> metadata(msgs[d].data)] >>])
           ELSE /\ msgs' = [msgs EXCEPT ![d].pc = "failed"]
                /\ destChannel' = destChannel
        /\ UNCHANGED << env, runPc, attempts, conn, connMap, sourceConn,
                        destConn, err, failedAt, thrown, closer, closeLog,
                        exited, now, sent, backlog, rpcQ, pubQ, pubLog,
                        destBroker, redisLogger, fileLogger, events, calls >>

(***************************************************************************)
(* The specification.                                                      *)
(***************************************************************************)
Init ==
    /\ env \in [RETRY_ON_FAIL : BOOLEAN,
                AMQP_DESTINATION_QUEUE : {"", "test-dest"},
                REDIS_URL : BOOLEAN, ENABLE_FILE_LOGGER : BOOLEAN,
                PRINT_RETURNED_BODY : BOOLEAN]
    /\ runPc = "idle" /\ attempts = 0
    /\ conn = << >> /\ connMap = [source |-> 0, dest |-> 0]
    /\ sourceConn = 0 /\ destConn = 0 /\ destChannel = "none"
    /\ err = "none" /\ failedAt = << >> /\ thrown = "none"
    /\ closer = [run |-> "idle", shutdown |-> "idle"] /\ closeLog = << >>
    /\ exited = FALSE /\ now = 0
    /\ srcQ = << >> /\ sent = 0 /\ backlog = 0 /\ msgs = << >>
    /\ rpcQ = << >> /\ pubQ = << >> /\ pubLog = << >> /\ destBroker = << >>
    /\ redisLogger = [started |-> FALSE, store |-> << >>]
    /\ fileLogger = << >>
    /\ events = {} /\ calls = << >>

\* run(), its retry, closeConnections() and the shutdown
NextRun ==
    \/ ~exited /\ run_start
    \/ ~exited /\ connectSource
    \/ ~exited /\ sourceChannel
    \/ ~exited /\ sourceQueue
    \/ ~exited /\ connectDest
    \/ ~exited /\ openDestChannel
    \/ ~exited /\ subscribe
    \/ ~exited /\ run_catch
    \/ ~exited /\ run_afterClose
    \/ ~exited /\ run_retry
    \/ ~exited /\ closeConnections_resume("run")
    \/ ~exited /\ closeConnections_resume("shutdown")
    \/ ~exited /\ startGracefulShutdown
    \/ ~exited /\ connectionLost

\* the relay of a run() whose setup succeeds, archival disabled, with
\* connection losses, channel exceptions and the shutdown
NextRelay ==
    \/ ~exited /\ run_start
    \/ ~exited /\ connectSource
    \/ ~exited /\ sourceChannel
    \/ ~exited /\ sourceQueue
    \/ ~exited /\ connectDest
    \/ ~exited /\ openDestChannel
    \/ ~exited /\ subscribe
    \/ ~exited /\ closeConnections_resume("shutdown")
    \/ ~exited /\ startGracefulShutdown
    \/ ~exited /\ connectionLost
    \/ ~exited /\ sourcePublish
    \/ ~exited /\ deliver
    \/ ~exited /\ confirmSelect
    \/ ~exited /\ queuePublish
    \/ ~exited /\ publishConfirmed
    \/ ~exited /\ publishReturned
    \/ ~exited /\ returned_emit
    \/ ~exited /\ publishesMessage_throw
    \/ ~exited /\ ackSettled
    \/ ~exited /\ nackSettled

\* the relay between two healthy brokers, with and without archival
NextArchive ==
    \/ ~exited /\ run_start
    \/ ~exited /\ connectSource
    \/ ~exited /\ sourceChannel
    \/ ~exited /\ sourceQueue
    \/ ~exited /\ connectDest
    \/ ~exited /\ openDestChannel
    \/ ~exited /\ subscribe
    \/ ~exited /\ sourcePublish
    \/ ~exited /\ deliver
    \/ ~exited /\ redisSet
    \/ ~exited /\ writeFile
    \/ ~exited /\ confirmSelect
    \/ ~exited /\ queuePublish
    \/ ~exited /\ publishConfirmed
    \/ ~exited /\ publishReturned
    \/ ~exited /\ returned_writeFile
    \/ ~exited /\ returned_emit
    \/ ~exited /\ ackSettled

\* a RedisLogger instance used on its own, as the unit tests and external
\* tooling use it
NextLogger ==
    \/ RedisLogger_push
    \/ RedisLogger_getCall

\* the earlier relay between two healthy brokers
NextPerDelivery ==
    \/ ~exited /\ run_start
    \/ ~exited /\ connectSource
    \/ ~exited /\ sourceChannel
    \/ ~exited /\ sourceQueue
    \/ ~exited /\ perDelivery_connectDest
    \/ ~exited /\ subscribe
    \/ ~exited /\ perDelivery_deliver
    \/ ~exited /\ perDelivery_channel
    \/ ~exited /\ confirmSelect
    \/ ~exited /\ publishConfirmed
    \/ ~exited /\ publishesMessage_throw
    \/ ~exited /\ perDelivery_ackSettled
    \/ ~exited /\ perDelivery_nackSettled

\* every step of the program.  returned_redisSet is no step of NextArchive:
\* by the time a publish is returned, RedisLogger.init() has answered true
\* to the push of a delivery, and answers undefined from then on
Next ==
    \/ NextRun
    \/ NextRelay
    \/ NextArchive
    \/ NextLogger
    \/ NextPerDelivery
    \/ ~exited /\ returned_redisSet

Spec == Init /\ [][Next]_vars

\* the relay's environment variables left at their defaults
InitRun ==
    /\ Init
    /\ env.AMQP_DESTINATION_QUEUE = "" /\ ~env.REDIS_URL
    /\ env.ENABLE_FILE_LOGGER /\ ~env.PRINT_RETURNED_BODY

SpecRun == InitRun /\ [][NextRun]_vars

\* SpecRun with what the event loop guarantees of run()'s catch block: an
\* awaited conn.close() settles, closeConnections() returns to its caller,
\* and the 2-second timer fires
SpecRetry ==
    /\ SpecRun
    /\ WF_vars(~exited /\ closeConnections_resume("run"))
    /\ WF_vars(~exited /\ run_afterClose)
    /\ WF_vars(~exited /\ run_retry)

InitRelay ==
    Init /\ env.RETRY_ON_FAIL /\ ~env.REDIS_URL /\ ~env.ENABLE_FILE_LOGGER

SpecRelay == InitRelay /\ [][NextRelay]_vars

\* SpecRelay with what the brokers and the event loop guarantee: a message
\* on the queue is delivered to the consumer, the destination answers the
\* request at the head of the channel (or the request fails), and an ack
\* or a nack settles
SpecRelayFair ==
    /\ SpecRelay
    /\ WF_vars(~exited /\ deliver)
    /\ WF_vars(~exited /\ (\/ confirmSelect \/ queuePublish
                           \/ publishConfirmed \/ publishReturned
                           \/ publishesMessage_throw))
    /\ WF_vars(~exited /\ ackSettled)
    /\ WF_vars(~exited /\ nackSettled)

InitArchive == Init /\ env.RETRY_ON_FAIL

\* the relay started on a backlog of messages with ids of every kind, the
\* file logger enabled, publishing by exchange and routing key
InitKeys ==
    /\ env = [RETRY_ON_FAIL |-> TRUE, AMQP_DESTINATION_QUEUE |-> "",
              REDIS_URL |-> FALSE, ENABLE_FILE_LOGGER |-> TRUE,
              PRINT_RETURNED_BODY |-> FALSE]
    /\ runPc = "idle" /\ attempts = 0
    /\ conn = << >> /\ connMap = [source |-> 0, dest |-> 0]
    /\ sourceConn = 0 /\ destConn = 0 /\ destChannel = "none"
    /\ err = "none" /\ failedAt = << >> /\ thrown = "none"
    /\ closer = [run |-> "idle", shutdown |-> "idle"] /\ closeLog = << >>
    /\ exited = FALSE /\ now = 0
    /\ srcQ \in Backlogs(MaxMessages) /\ sent = Len(srcQ) /\ backlog = 0
    /\ msgs = << >>
    /\ rpcQ = << >> /\ pubQ = << >> /\ pubLog = << >> /\ destBroker = << >>
    /\ redisLogger = [started |-> FALSE, store |-> << >>]
    /\ fileLogger = << >>
    /\ events = {} /\ calls = << >>

NextKeys ==
    \/ ~exited /\ run_start
    \/ ~exited /\ connectSource
    \/ ~exited /\ sourceChannel
    \/ ~exited /\ sourceQueue
    \/ ~exited /\ connectDest
    \/ ~exited /\ openDestChannel
    \/ ~exited /\ subscribe
    \/ ~exited /\ deliver
    \/ ~exited /\ writeFile
    \/ ~exited /\ confirmSelect
    \/ ~exited /\ publishConfirmed
    \/ ~exited /\ publishReturned
    \/ ~exited /\ returned_writeFile
    \/ ~exited /\ returned_emit
    \/ ~exited /\ ackSettled

SpecKeys == InitKeys /\ [][NextKeys]_vars

SpecLogger == Init /\ [][NextLogger]_vars

\* the messages that have a queue on the destination
RoutableMessages == {m \in Messages : Bound(m.exchange, m.routingKey)}

\* the earlier relay started on a backlog of such messages, archival off,
\* publishing by exchange and routing key
InitPerDelivery ==
    /\ env = [RETRY_ON_FAIL |-> TRUE, AMQP_DESTINATION_QUEUE |-> "",
              REDIS_URL |-> FALSE, ENABLE_FILE_LOGGER |-> FALSE,
              PRINT_RETURNED_BODY |-> FALSE]
    /\ runPc = "idle" /\ attempts = 0
    /\ conn = << >> /\ connMap = [source |-> 0, dest |-> 0]
    /\ sourceConn = 0 /\ destConn = 0 /\ destChannel = "none"
    /\ err = "none" /\ failedAt = << >> /\ thrown = "none"
    /\ closer = [run |-> "idle", shutdown |-> "idle"] /\ closeLog = << >>
    /\ exited = FALSE /\ now = 0
    /\ srcQ \in UNION { [1..k -> RoutableMessages] : k \in 1..MaxMessages }
    /\ sent = Len(srcQ) /\ backlog = 0
    /\ msgs = << >>
    /\ rpcQ = << >> /\ pubQ = << >> /\ pubLog = << >> /\ destBroker = << >>
    /\ redisLogger = [started |-> FALSE, store |-> << >>]
    /\ fileLogger = << >>
    /\ events = {} /\ calls = << >>

SpecPerDelivery == InitPerDelivery /\ [][NextPerDelivery]_vars

SpecArchive == InitArchive /\ [][NextArchive]_vars

(***************************************************************************)
(* Properties of run(), closeConnections() and the retry (SpecRun).        *)
(***************************************************************************)
\* the handling of attempt a's failure is over: closeConnections() returned
\* and run() scheduled its retry or rejected
handled(a) == a < attempts \/ runPc \in {"retryWait", "rejected"}

connsOf(a, role) ==
    {c \in 1..Len(conn) : conn[c].attempt = a /\ conn[c].role = role}

\* C8: once the handling of a failed setup attempt is over, no connection
\* opened by that attempt is still open
C8_NoConnectionLeftOpen ==
    \A a \in 1..attempts :
        (failedAt[a] # "none" /\ handled(a)) =>
            \A c \in connsOf(a, "source") \cup connsOf(a, "dest") :
                conn[c].state = "closed"

\* C9: when the exclusive subscribe on the source queue is refused, the
\* attempt fails and, once its failure is handled, the destination
\* connection it opened is closed; with the retry disabled run() has
\* rejected with the refusal
C9_ExclusiveRefusedClosesDest ==
    \A a \in 1..attempts :
        (failedAt[a] = "subscribe" /\ handled(a)) =>
            /\ connsOf(a, "dest") # {}
            /\ \A c \in connsOf(a, "dest") : conn[c].state = "closed"
            /\ ~env.RETRY_ON_FAIL => thrown = "subscribe"

C9_Witness ==
    \E a \in 1..attempts :
        /\ failedAt[a] = "subscribe" /\ handled(a)
        /\ \E c \in connsOf(a, "dest") :
               \E i \in 1..Len(closeLog) : closeLog[i].conn = c

\* C10: with the retry disabled a failed setup makes run() reject with the
\* error that failed it, only once closeConnections() has gone through every
\* connection of connMap, and no retry is scheduled; with the retry enabled
\* run() does not reject
C10_RejectsAfterClose ==
    /\ runPc = "rejected" =>
           /\ ~env.RETRY_ON_FAIL
           /\ thrown # "none" /\ thrown = failedAt[attempts]
           /\ closer["run"] = "idle"
           /\ \A i \in 1..Len(Keys) :
                  connMap[Keys[i]] # 0 =>
                      conn[connMap[Keys[i]]].state = "closed"
    /\ ~env.RETRY_ON_FAIL => attempts <= 1 /\ runPc # "retryWait"
    /\ runPc # "rejected" => thrown = "none"

C10_Witness ==
    /\ runPc = "rejected" /\ thrown = "subscribe"
    /\ Len(closeLog) = 2

\* closeConnections() as invoked by who has returned
closeReturned(who) ==
    \/ closer[who] = "done"
    \/ who = "run" /\ runPc \in {"retryWait", "rejected"}

registered == {connMap[Keys[i]] : i \in 1..Len(Keys)} \ {0}

closedOrAbsent(key) ==
    connMap[key] = 0 \/ conn[connMap[key]].state = "closed"

\* the position of the loop of closeConnections() in state `at` of closer
position(at) ==
    IF at = "idle" THEN 0
    ELSE IF at = "done" THEN Len(Keys) + 1 ELSE keyIndex(at)

\* C13: closeConnections() passes no entry of connMap whose connection is
\* open without calling close() on it, so that when run()'s call has
\* returned every registered connection is closed; with an empty map it
\* closes nothing; and close() is called on no connection twice: a call
\* after a completed call closes nothing further
C13_ClosesAllOnce ==
    /\ [](closeReturned("run") => \A c \in registered :
                                      conn[c].state = "closed")
    /\ [](registered = {} => closeLog = << >>)
    /\ [](\A i, j \in 1..Len(closeLog) :
              closeLog[i].conn = closeLog[j].conn => i = j)
    /\ [][\A who \in DOMAIN closer :
             (closer'[who] # closer[who] /\ closer'[who] # "idle") =>
                 /\ \A i \in (position(closer[who]) + 1) ..
                              (position(closer'[who]) - 1) :
                        closedOrAbsent(Keys[i])
                 /\ closer'[who] # "done" =>
                        /\ conn[connMap[closer'[who]]].state = "open"
                        /\ conn'[connMap[closer'[who]]].state = "closed"]_vars

C13_Witness ==
    /\ runPc = "rejected" /\ exited
    /\ Len(closeLog) = 2
    /\ \A i \in 1..Len(closeLog) : closeLog[i].by = "run"

\* C14: a close() that rejects inside closeConnections() does not keep the
\* loop from the connection registered after it, and is not what run()
\* rejects with nor a reason for the shutdown not to exit
C14_CloseFailureContained ==
    /\ \A i \in 1..Len(closeLog) :
           (/\ closeLog[i].result = "rejected"
            /\ conn[closeLog[i].conn].role = "source"
            /\ connMap["dest"] # 0) =>
               \/ conn[connMap["dest"]].state = "closed"
               \/ conn[connMap["dest"]].attempt >
                      conn[closeLog[i].conn].attempt
    /\ runPc = "rejected" => thrown = failedAt[attempts]
    /\ closer["shutdown"] = "done" => exited

C14_Witness ==
    /\ runPc = "rejected" /\ thrown = "subscribe"
    /\ Len(closeLog) = 2
    /\ closeLog[1].result = "rejected" /\ closeLog[1].by = "run"
    /\ closeLog[2].result # "pending" /\ closeLog[2].by = "run"

\* C11: with the retry enabled run() never rejects; an attempt is started
\* by the first call or by the timer of the failed attempt before it, one
\* at a time; and a failed attempt is followed by a next one (up to
\* MaxAttempts, and unless the process exits)
C11_RetryNeverRejects ==
    /\ [](env.RETRY_ON_FAIL => runPc # "rejected" /\ thrown = "none")
    /\ [][attempts' # attempts =>
             /\ attempts' = attempts + 1
             /\ \/ runPc = "idle"
                \/ /\ runPc = "retryWait" /\ env.RETRY_ON_FAIL
                   /\ failedAt[attempts] # "none"]_vars
    /\ \A a \in 1..(MaxAttempts - 1) :
           (env.RETRY_ON_FAIL /\ attempts = a /\ failedAt[a] # "none")
               ~> (attempts > a \/ exited)

C11_Witness ==
    /\ env.RETRY_ON_FAIL /\ attempts = 2 /\ runPc = "retryWait"
    /\ failedAt[1] # "none" /\ failedAt[2] # "none" /\ thrown = "none"

\* C12: with the retry enabled, when a connection is lost while the relay
\* is running, a new run() attempt is eventually started
C12_ReconnectsAfterLoss ==
    \A a \in 1..(MaxAttempts - 1) :
        (/\ env.RETRY_ON_FAIL /\ runPc = "running" /\ attempts = a
         /\ ~isOpen(sourceConn) \/ ~isOpen(destConn))
            ~> (attempts > a \/ exited)

\* C31: every attempt before the current one failed during its setup, so
\* it installed no subscription; an attempt begins only at the entry
\* point's call or when the retry timer fires, run()'s catch block having
\* finished; and once an attempt has subscribed, no attempt follows
C31_OneAttemptAtATime ==
    /\ [](\A a \in 1..(attempts - 1) : failedAt[a] \in SetupSteps)
    /\ [][attempts' # attempts =>
              /\ attempts' = attempts + 1
              /\ runPc \in {"idle", "retryWait"} /\ closer["run"] = "idle"
              /\ runPc' = "srcConnect"]_vars
    /\ [][runPc = "running" =>
              runPc' = "running" /\ attempts' = attempts]_vars

\* a second attempt has subscribed after the first one failed
C31_Witness ==
    /\ attempts = 2 /\ runPc = "running"
    /\ failedAt[1] \in SetupSteps /\ failedAt[2] = "none"

\* C32: once closeConnections() was invoked for the shutdown, no step
\* opens a connection or changes connMap, and when that invocation has
\* completed no connection is open
C32_ShutdownLeavesNothingOpen ==
    /\ [][closer["shutdown"] # "idle" =>
              /\ Len(conn') = Len(conn)
              /\ connMap' = connMap]_vars
    /\ [](closer["shutdown"] = "done" =>
              \A c \in DOMAIN conn : conn[c].state # "open")

\* C22: every connection that is open is an entry of connMap, so that a
\* closeConnections() called in any state closes it
C22_OpenConnectionsRegistered ==
    \A c \in DOMAIN conn :
        conn[c].state = "open" => c \in {connMap["source"], connMap["dest"]}

(***************************************************************************)
(* Properties of the subscribe callback (SpecRelay).                       *)
(***************************************************************************)
PublishSteps == {"confirm", "queue", "publish"}

\* the destination broker handled the publish of delivery d: it routed the
\* message to a queue, or returned it, and confirmed
brokerConfirmed(d) ==
    \/ \E i \in 1..Len(destBroker) : destBroker[i].d = d
    \/ msgs[d].returned

\* C1: a delivery is acked only once its publish was confirmed and
\* publishesMessage returned; a delivery whose publish step has not
\* completed, or has thrown, is not acked
C1_AckOnlyAfterPublish ==
    \A d \in 1..Len(msgs) :
        /\ msgs[d].ackArgs # << >> =>
               /\ brokerConfirmed(d)
               /\ \E e \in events : e.type = "published" /\ e.d = d
               /\ msgs[d].threw \notin PublishSteps
        /\ (\/ msgs[d].pc \in {"redisWait", "fileWait"} \cup PublishSteps
            \/ msgs[d].threw \in PublishSteps) => msgs[d].ackArgs = << >>

C1_Witness ==
    \E d, e \in 1..Len(msgs) :
        /\ msgs[d].ackArgs = << FALSE >> /\ msgs[d].pc = "done"
        /\ msgs[e].pc = "publish" /\ msgs[e].ackArgs = << >>

\* C2 (as stated): a delivery whose mandatory publish the destination
\* broker returned as unroutable is nacked with requeue and not acked
C2_ReturnedIsNacked ==
    \A d \in 1..Len(msgs) :
        (msgs[d].returned /\ msgs[d].pc \in {"done", "failed"}) =>
            msgs[d].ackArgs = << >> /\ msgs[d].nackArgs = << TRUE, FALSE >>

\* C2 (amended): the broker confirms a publish it returned, so the delivery
\* is acked; it is nacked only when that ack itself fails
C2_ReturnedIsAcked ==
    \A d \in 1..Len(msgs) :
        msgs[d].returned =>
            /\ msgs[d].ackArgs = << FALSE >>
            /\ msgs[d].nackArgs # << >> => msgs[d].threw = "ack"

C2_Witness ==
    \E d \in 1..Len(msgs) :
        /\ msgs[d].returned /\ msgs[d].pc = "done"
        /\ msgs[d].msg.routingKey = "fail-queue"
        /\ \E e \in events : e.type = "returned" /\ e.d = d

\* the 'published' event of delivery d, with its id and its envelope
publishedEvent(d) ==
    \E e \in events : /\ e.type = "published" /\ e.d = d
                      /\ e.id = msgs[d].id /\ e.data = msgs[d].data

\* C19: the 'published' event of a delivery is there exactly when the
\* destination broker confirmed its publish, ack(false) was then called for
\* that delivery, and nack is called for no delivery that has the event
C19_PublishedThenAcked ==
    \A d \in 1..Len(msgs) :
        /\ publishedEvent(d) <=> brokerConfirmed(d)
        /\ publishedEvent(d) => msgs[d].ackArgs = << FALSE >>
        /\ msgs[d].nackArgs # << >> => ~publishedEvent(d)

\* C3: a delivery whose publish step threw is nacked with requeue = true,
\* multiple = false, and is not acked
C3_ThrowIsNacked ==
    \A d \in 1..Len(msgs) :
        msgs[d].threw \in PublishSteps =>
            msgs[d].nackArgs = << TRUE, FALSE >> /\ msgs[d].ackArgs = << >>

C3_Witness ==
    \E d, e \in 1..Len(msgs) :
        /\ msgs[d].threw = "publish" /\ msgs[d].pc = "failed"
        /\ msgs[e].threw = "confirm"

(***************************************************************************)
(* Properties of the relay between two healthy brokers (SpecArchive).      *)
(***************************************************************************)
\* C15: an archival write that fails does not stop the relay of its
\* message: the file logger is still attempted after a failed cache-store
\* write, nothing is thrown into the callback, the message is published
\* as it was received and the delivery is acked and not nacked
C15_ArchivalFailureSwallowed ==
    \A d \in 1..Len(msgs) :
        /\ msgs[d].redis = "failed" =>
               /\ msgs[d].pc # "redisWait"
               /\ env.ENABLE_FILE_LOGGER =>
                      msgs[d].pc = "fileWait" \/ msgs[d].file # "none"
        /\ msgs[d].file = "failed" =>
               msgs[d].pc \notin {"redisWait", "fileWait"}
        /\ (msgs[d].redis = "failed" \/ msgs[d].file = "failed") =>
               /\ msgs[d].threw = "none" /\ msgs[d].nackArgs = << >>
               /\ msgs[d].pc = "done" =>
                      /\ msgs[d].ackArgs = << FALSE >>
                      /\ \E i \in 1..Len(pubLog) :
                             /\ pubLog[i].d = d
                             /\ pubLog[i].properties = msgs[d].msg.properties
                             /\ pubLog[i].body = encodeBody(msgs[d].data.body)
                      /\ \E e \in events : e.type = "published" /\ e.d = d

C15_Witness ==
    \E d \in 1..Len(msgs) :
        /\ msgs[d].redis = "failed" /\ msgs[d].file = "failed"
        /\ msgs[d].pc = "done" /\ msgs[d].ackArgs = << FALSE >>

\* publishesMessage was called for delivery d (in the run of msgs m)
publishStarted(m, d) == m[d].pc \notin {"redisWait", "fileWait"}

\* C23: when the publish of a delivery has started, its push to the file
\* backend, if enabled, has settled, no cache-store write of it is
\* pending, and from then on no archival write of that delivery settles
C23_ArchiveBeforePublish ==
    /\ [](\A d \in 1..Len(msgs) :
             publishStarted(msgs, d) =>
                 (env.ENABLE_FILE_LOGGER => msgs[d].file \in {"ok", "failed"}))
    /\ [][\A d \in 1..Len(msgs) :
             publishStarted(msgs, d) =>
                 /\ publishStarted(msgs', d)
                 /\ msgs'[d].redis = msgs[d].redis
                 /\ msgs'[d].file = msgs[d].file]_vars
    /\ [][\A i \in (Len(pubLog) + 1)..Len(pubLog') :
             LET d == pubLog'[i].d
             IN /\ publishStarted(msgs, d)
                /\ env.ENABLE_FILE_LOGGER => msgs[d].file # "none"]_vars

\* a delivery whose cache-store write succeeded and whose file write failed
\* has been published
C23_Witness ==
    \E d \in 1..Len(msgs) :
        /\ msgs[d].redis = "ok" /\ msgs[d].file = "failed"
        /\ \E i \in 1..Len(pubLog) : pubLog[i].d = d

\* the return handler of delivery d's message has finished
handled_return(d) == msgs[d].ret \in {"done", "failed"}

\* C27: the return handler ends having logged one warning, with the body
\* when PRINT_RETURNED_BODY is set and with channel, exchange, routingKey
\* and properties only when it is not, and its promise resolves
C27_ReturnWarningLogged ==
    \A d \in 1..Len(msgs) :
        handled_return(d) =>
            /\ msgs[d].ret = "done"
            /\ Len(msgs[d].retLog) = 1
            /\ msgs[d].retLog[1].level = "warn"
            /\ msgs[d].retLog[1].fields =
                   IF env.PRINT_RETURNED_BODY THEN returnedData(d)
                   ELSE metadata(returnedData(d))

\* what a step leaves of the source deliveries and of the publishes
sameDeliveries ==
    /\ srcQ' = srcQ /\ pubLog' = pubLog /\ destBroker' = destBroker
    /\ rpcQ' = rpcQ /\ pubQ' = pubQ
    /\ \A e \in 1..Len(msgs) :
           /\ msgs'[e].pc = msgs[e].pc
           /\ msgs'[e].ackArgs = msgs[e].ackArgs
           /\ msgs'[e].nackArgs = msgs[e].nackArgs

\* C24: a step of the return handler acks, nacks and publishes nothing and
\* leaves every source delivery as it is.  (The step in which the handler
\* is invoked is the broker's return and confirm of the publish: the
\* callback acks on that confirm; the handler nacks and publishes nothing.)
C24_ReturnHandlerFrame ==
    [][\A d \in 1..Len(msgs) :
          /\ (msgs[d].ret # "none" /\ msgs'[d].ret # msgs[d].ret) =>
                 sameDeliveries
          /\ (msgs[d].ret = "none" /\ msgs'[d].ret # "none") =>
                 /\ srcQ' = srcQ /\ pubLog' = pubLog /\ rpcQ' = rpcQ
                 /\ \A e \in 1..Len(msgs) :
                        msgs'[e].nackArgs = msgs[e].nackArgs]_vars

\* a returned message was archived in a file and announced, its delivery
\* acked
C24_Witness ==
    \E d \in 1..Len(msgs) :
        /\ msgs[d].ret = "done" /\ msgs[d].retFile = "ok"
        /\ msgs[d].pc = "done" /\ msgs[d].nackArgs = << >>
        /\ \E e \in events : e.type = "returned" /\ e.d = d
        /\ logFile(returnedKey(d)) \in DOMAIN fileLogger

\* C16: once the return handler has finished, a 'returned' event for the
\* message was emitted and every enabled archival backend whose write did
\* not fail holds the returned message under returned-<id>
C16_ReturnedArchived ==
    \A d \in 1..Len(msgs) :
        handled_return(d) =>
            /\ \E e \in events : e.type = "returned" /\ e.d = d
            /\ (env.REDIS_URL /\ msgs[d].retRedis # "failed") =>
                   /\ returnedKey(d) \in DOMAIN redisLogger.store
                   /\ redisLogger.store[returnedKey(d)] =
                          JSON_stringify(returnedData(d))
            /\ (env.ENABLE_FILE_LOGGER /\ msgs[d].retFile # "failed") =>
                   logFile(returnedKey(d)) \in DOMAIN fileLogger

\* the ids of the deliveries that were relayed, their cache-store write not
\* having failed
relayedIds ==
    {msgs[d].id : d \in {e \in 1..Len(msgs) :
                            msgs[e].pc = "done" /\ msgs[e].redis # "failed"}}

\* C17: with the cache store enabled, every relayed message has one record
\* under its id, the serialization of its envelope, so that the store holds
\* as many forward records as there are relayed ids
C17_EveryMessageCached ==
    env.REDIS_URL =>
        /\ \A d \in 1..Len(msgs) :
               (msgs[d].pc = "done" /\ msgs[d].redis # "failed") =>
                   /\ msgs[d].id \in DOMAIN redisLogger.store
                   /\ \E e \in 1..Len(msgs) :
                          /\ msgs[e].id = msgs[d].id
                          /\ redisLogger.store[msgs[d].id] =
                                 JSON_stringify(msgs[e].data)
        /\ relayedIds \subseteq DOMAIN redisLogger.store

\* the properties that are there
defined(properties) ==
    [k \in {j \in DOMAIN properties : properties[j] # "undefined"} |->
        properties[k]]

\* assert.deepEqual of two envelopes
deepEqual(a, b) ==
    [a EXCEPT !.properties = defined(@)] = [b EXCEPT !.properties = defined(@)]

\* JSON.parse(JSON.stringify(data)) is data
jsonSafe(data) ==
    \A k \in DOMAIN data.properties :
        toJSON(data.properties[k]) = data.properties[k]

\* FileLogger.push(id, data) writes: exactly the file msg-<id>.txt under
\* the logs path is (over)written, with the serialization of data
pushed(id, data) ==
    fileLogger' = put(fileLogger, "/logs/events/msg-" \o id \o ".txt",
                      JSON_stringify(data))

\* C18 (as stated): a push that succeeds writes exactly the file of its id,
\* whatever that file held, with the JSON of the envelope, and get(id)
\* then returns a value deep-equal to the envelope
C18_FileRoundTrip ==
    [][\A d \in 1..Len(msgs) :
          /\ (msgs[d].file = "none" /\ msgs'[d].file = "ok") =>
                 /\ pushed(msgs[d].id, msgs[d].data)
                 /\ deepEqual(FileLogger_get(fileLogger', msgs[d].id),
                              msgs[d].data)
          /\ (msgs[d].retFile = "none" /\ msgs'[d].retFile = "ok") =>
                 /\ pushed(returnedKey(d), returnedData(d))
                 /\ deepEqual(FileLogger_get(fileLogger', returnedKey(d)),
                              returnedData(d))]_vars

\* C18 (amended): get(id) then returns what JSON.parse makes of the file,
\* which is deep-equal to the envelope when the envelope holds nothing that
\* JSON changes (a Date timestamp comes back as a string)
C18_FileRoundTrip_Json ==
    [][\A d \in 1..Len(msgs) :
          /\ (msgs[d].file = "none" /\ msgs'[d].file = "ok") =>
                 /\ pushed(msgs[d].id, msgs[d].data)
                 /\ FileLogger_get(fileLogger', msgs[d].id) =
                        JSON_parse(JSON_stringify(msgs[d].data))
                 /\ jsonSafe(msgs[d].data) =>
                        deepEqual(FileLogger_get(fileLogger', msgs[d].id),
                                  msgs[d].data)
          /\ (msgs[d].retFile = "none" /\ msgs'[d].retFile = "ok") =>
                 /\ pushed(returnedKey(d), returnedData(d))
                 /\ FileLogger_get(fileLogger', returnedKey(d)) =
                        JSON_parse(JSON_stringify(returnedData(d)))
                 /\ jsonSafe(returnedData(d)) =>
                        deepEqual(FileLogger_get(fileLogger', returnedKey(d)),
                                  returnedData(d))]_vars

\* two deliveries with one id and different envelopes wrote their file: the
\* file holds the envelope of one of them, and get returns it
C18_Witness ==
    \E d, e \in 1..Len(msgs) :
        /\ msgs[d].id = msgs[e].id /\ msgs[d].data # msgs[e].data
        /\ msgs[d].file = "ok" /\ msgs[e].file = "ok"
        /\ jsonSafe(msgs[e].data)
        /\ deepEqual(FileLogger_get(fileLogger, msgs[e].id), msgs[e].data)

\* the target of delivery d's publish has a queue on the destination
routable(d) ==
    \/ env.AMQP_DESTINATION_QUEUE # ""
    \/ Bound(msgs[d].msg.exchange, msgs[d].msg.routingKey)

arrived(d) == {i \in 1..Len(destBroker) : destBroker[i].d = d}

\* C4: a message whose routing target is bound, once its delivery is done,
\* is on the destination exactly once, with the properties and the body it
\* had on the source
C4_ExactlyOnceUnmodified ==
    \A d \in 1..Len(msgs) :
        (msgs[d].pc = "done" /\ routable(d)) =>
            /\ Cardinality(arrived(d)) = 1
            /\ \A i \in arrived(d) :
                   /\ destBroker[i].properties = msgs[d].msg.properties
                   /\ destBroker[i].body = msgs[d].msg.body

\* the deliveries selected by S were published in the order they were
\* delivered in, which is the order they were put on the source queue in
InOrder(S) ==
    \A i, j \in 1..Len(pubLog) :
        (i < j /\ pubLog[i].d \in S /\ pubLog[j].d \in S) =>
            pubLog[i].d < pubLog[j].d

archival == env.REDIS_URL \/ env.ENABLE_FILE_LOGGER

whileRunning == {d \in 1..Len(msgs) : d > backlog}

beforeRun == {d \in 1..Len(msgs) : d <= backlog}

\* C5 (as stated): messages put on the source queue one after the other
\* while the relay runs are published in that order
C5_OrderWhileRunning == InOrder(whileRunning)

\* C5 (amended): they are, when neither the cache store nor the file logger
\* is enabled
C5_OrderWhileRunning_NoArchival == ~archival => InOrder(whileRunning)

C5_Witness ==
    /\ ~archival /\ backlog = 0
    /\ Len(pubLog) = 2 /\ Len(pubQ) = 2

\* C6 (as stated): a backlog that is on the source queue before run() is
\* called is published in the order it was enqueued in
C6_OrderOfBacklog == InOrder(beforeRun)

\* C6 (amended): it is, when neither the cache store nor the file logger is
\* enabled
C6_OrderOfBacklog_NoArchival == ~archival => InOrder(beforeRun)

C6_Witness ==
    /\ ~archival /\ backlog = 2
    /\ Len(pubLog) = 2 /\ Len(pubQ) = 2

\* C7: the publish of a delivery depends on the configuration only: with a
\* destination queue, to that queue by name, with the original properties
\* and body; without, to the original exchange and routingKey, mandatory
C7_RoutingByConfiguration ==
    \A i \in 1..Len(pubLog) :
        LET p == pubLog[i]
            msg == msgs[p.d].msg
        IN IF env.AMQP_DESTINATION_QUEUE # ""
           THEN /\ p.exchange = "" /\ p.routingKey = env.AMQP_DESTINATION_QUEUE
                /\ p.properties = msg.properties /\ p.body = msg.body
           ELSE /\ p.exchange = msg.exchange /\ p.routingKey = msg.routingKey
                /\ p.mandatory

(***************************************************************************)
(* Properties of the catch block and of the acknowledgements (SpecRelay).  *)
(***************************************************************************)
\* C21: once the nack of a delivery whose publish step threw has resolved,
\* the callback has logged one error with the message id and the
\* envelope's channel, exchange, routingKey and properties, without its
\* body, and its promise has resolved
C21_FailureLoggedWithoutBody ==
    \A d \in 1..Len(msgs) :
        (/\ msgs[d].threw \in PublishSteps /\ isOpen(sourceConn)
         /\ msgs[d].pc \notin {"nack"}) =>
            /\ msgs[d].pc = "caught"
            /\ Len(msgs[d].log) = 1
            /\ msgs[d].log[1].level = "error"
            /\ msgs[d].log[1].id = msgs[d].id
            /\ msgs[d].log[1].fields = metadata(msgs[d].data)
            /\ "body" \notin DOMAIN msgs[d].log[1].fields

\* C30: the relay calls ack and nack for no delivery both, and calls nack
\* only for a delivery whose publish the destination did not confirm
C30_ResolvedAtMostOnce ==
    \A d \in 1..Len(msgs) :
        /\ ~(msgs[d].ackArgs # << >> /\ msgs[d].nackArgs # << >>)
        /\ msgs[d].nackArgs # << >> => ~brokerConfirmed(d)

(***************************************************************************)
(* Properties of the ids and of the archival keys (SpecKeys).              *)
(***************************************************************************)
\* the return handler was invoked for the message of delivery d
returnHandled(d) == msgs[d].ret # "none"

\* C25: the key under which a returned message is archived is the key of
\* no forward-path message
C25_ReturnedKeyDistinct ==
    \A d, e \in 1..Len(msgs) :
        returnHandled(d) => returnedKey(d) # msgs[e].id

\* the callback of delivery d has not finished
inFlight(d) == msgs[d].pc \notin {"done", "failed", "caught"}

\* C26: two deliveries that are in flight at the same time have different
\* ids
C26_InFlightIdsDistinct ==
    \A d, e \in 1..Len(msgs) :
        (d # e /\ inFlight(d) /\ inFlight(e)) => msgs[d].id # msgs[e].id

(***************************************************************************)
(* Properties of the RedisLogger used on its own (SpecLogger).             *)
(***************************************************************************)
\* call i + 1 is a get of the id that call i pushed
pushThenGet(i) ==
    /\ calls[i].op = "push" /\ calls[i + 1].op = "get"
    /\ calls[i + 1].id = calls[i].id

\* C28: with the logger enabled, a push whose redis.set resolved, followed
\* by a get of its id whose redis.get resolves, makes that get return a
\* value deep-equal to the one pushed
C28_CacheRoundTrip ==
    \A i \in 1..(Len(calls) - 1) :
        (/\ env.REDIS_URL /\ pushThenGet(i)
         /\ calls[i].result.kind # "throws") =>
            /\ calls[i + 1].result.kind = "value"
            /\ deepEqual(calls[i + 1].result.value[1], calls[i].message[1])

\* C29: a call for which init() does not answer true stores nothing and
\* does not throw when it is a push, and returns undefined when it is a get
C29_DisabledStoresNothing ==
    [][Len(calls') > Len(calls) =>
          LET c == calls'[Len(calls')]
          IN ~c.success =>
                 /\ redisLogger'.store = redisLogger.store
                 /\ c.result.kind = "undefined"]_vars

\* on a disabled logger, and on an enabled one that has started, a push
\* followed by a get of its id
C29_Witness ==
    /\ Len(calls) = 3
    /\ pushThenGet(2)
    /\ ~calls[2].success /\ ~calls[3].success
    /\ calls[3].result.kind = "undefined" /\ redisLogger.store = << >>

(***************************************************************************)
(* Properties of the earlier relay (SpecPerDelivery).                      *)
(***************************************************************************)
\* delivery d ends its callback in this step, closing the open channel
closesChannel(d) ==
    /\ msgs[d].pc \in {"ack", "nack"} /\ msgs'[d].pc \in {"done", "caught"}
    /\ destChannel = "open" /\ destChannel' = "closed"

\* C33: when a delivery closes its destination channel, no other delivery
\* is in its publish step on that channel
C33_ChannelNotClosedUnderPublisher ==
    [][\A d \in 1..Len(msgs) :
          closesChannel(d) =>
              \A e \in 1..Len(msgs) \ {d} : msgs[e].pc \notin PublishSteps]_vars

(***************************************************************************)
(* Properties of the relay after a publish failure (SpecRelayFair).        *)
(***************************************************************************)
\* both connections of the running relay are open and no shutdown has begun
relayRunning ==
    /\ runPc = "running" /\ ~exited /\ closer["shutdown"] = "idle"
    /\ isOpen(sourceConn) /\ isOpen(destConn)

\* delivery d was nacked because its publish failed, and the next delivery,
\* e, is still on the source queue, its routing target on the destination
nackedBefore(d, e) ==
    /\ relayRunning
    /\ Len(msgs) = e - 1 /\ d < e
    /\ msgs[d].threw \in PublishSteps /\ msgs[d].pc = "failed"
    /\ srcQ # << >>
    /\ \/ env.AMQP_DESTINATION_QUEUE # ""
       \/ Bound(Head(srcQ).exchange, Head(srcQ).routingKey)

\* delivery e was published and acked
relayed(e) ==
    /\ Len(msgs) >= e
    /\ msgs[e].pc = "done" /\ msgs[e].ackArgs = << FALSE >>
    /\ \E i \in 1..Len(destBroker) : destBroker[i].d = e

\* the publish of delivery e met an error of its own at the broker
ownError(e) == Len(msgs) >= e /\ msgs[e].threw \in {"queue", "publish"}

\* C20: after a delivery was nacked because its publish failed, the next
\* delivery whose routing target exists is published and acked, as long as
\* the relay keeps running and its own publish meets no error
C20_RecoversPerMessage ==
    \A d, e \in 1..MaxDeliveries :
        nackedBefore(d, e) ~> (relayed(e) \/ ownError(e) \/ ~relayRunning)
====
